---- MODULE Spec2Model ----
(***************************************************************************)
(* A model of knavalbattle.js: the NavalClient session (client source) and *)
(* the message classes it exchanges (src/src/message.ts).                  *)
(*                                                                         *)
(* One action per public method or socket callback of NavalClient.  Each   *)
(* action is the whole method: guard, writes to the socket, emitted events *)
(* and field assignments.  A method that throws leaves the fields alone    *)
(* and records the failure in `last`.                                      *)
(***************************************************************************)
EXTENDS Integers, Sequences, FiniteSets, TLC

VARIABLES
    gameState,    \* NavalClient._gameState
    firedAt,      \* NavalClient.firedAt : array of [x, y]
    opponent,     \* NavalClient.opponent : <<>> when undefined, else <<Player>>
    gameOptions,  \* NavalClient.gameOptions
    socket,       \* NavalClient.#socket : "none" (undefined), "open", "ended" (end() called), "closed"
    listeners,    \* the waitForNotification listeners on 'raw', in registration order
    movesSent,    \* coordinates written as Move since the last Begin was processed
    written,      \* what the last operation passed to #socket.write, in order
    emitted,      \* the events the last operation emitted, in order ('raw' is not listed)
    resolved,     \* the promises the last operation resolved: <<position, message>>
    last,         \* the last operation: [op, arg, result]; arg is the argument of a method call
    running,      \* the Node.js process running the client is alive
    scenario,     \* how many steps of the example game the run has followed so far
    codec         \* a message on its way through toXML and fromXML

vars == <<gameState, firedAt, opponent, gameOptions, socket, listeners,
          movesSent, written, emitted, resolved, last, running, scenario, codec>>

----------------------------------------------------------------------------
(* Bounds of the model *)

MaxPending == 2   \* sendFireAt calls outstanding at once
MaxFired   == 2   \* Len(firedAt) + Len(listeners)
MaxCoord   == 1   \* largest coordinate of the messages put through the codec

Coords    == {<<5, 5>>, <<0, 5>>}   \* where the client fires
Shots     == {<<2, 2>>, <<0, 1>>}   \* where the opponent fires
Nicknames == {"B", "C"}
MyNick    == "KNavalBattle.js"

----------------------------------------------------------------------------
(* enum GameState *)

DISCONNECTED         == "DISCONNECTED"
SHIP_SETUP           == "SHIP_SETUP"
FIRE_SHIPS_SELF      == "FIRE_SHIPS_SELF"
AWAIT_RESPONSE_SELF  == "AWAIT_RESPONSE_SELF"
FIRE_SHIPS_OTHER     == "FIRE_SHIPS_OTHER"
AWAIT_RESPONSE_OTHER == "AWAIT_RESPONSE_OTHER"
GAME_OVER            == "GAME_OVER"

GameStates == {DISCONNECTED, SHIP_SETUP, FIRE_SHIPS_SELF, AWAIT_RESPONSE_SELF,
               FIRE_SHIPS_OTHER, AWAIT_RESPONSE_OTHER, GAME_OVER}

(* enum MessageType *)

THeader       == 0
TReject       == 1
TNick         == 2
TBegin        == 3
TMove         == 4
TNotification == 5
TGameOver     == 6
TRestart      == 7
TChat         == 8
TGameOptions  == 9

----------------------------------------------------------------------------
(* The message classes.  `class` is what instanceof tests, `type` is the   *)
(* tag the constructor hands to super().  An optional value is <<>> when   *)
(* undefined and <<v>> when given.                                         *)

\* JavaScript truthiness of an optional numeric node
TruthyNum(opt) == opt # <<>> /\ opt[1] # 0

\* JavaScript truthiness of an optional boolean node
TruthyBool(opt) == opt # <<>> /\ opt[1]

HeaderMessage(protocolVersion, clientName, clientVersion, clientDescription) ==
    [class |-> "HeaderMessage", type |-> THeader,
     protocolVersion |-> protocolVersion, clientName |-> clientName,
     clientVersion |-> clientVersion, clientDescription |-> clientDescription]

NickMessage(nickname) ==
    [class |-> "NickMessage", type |-> TNick, nickname |-> nickname]

GameOptionsMessage(enabledAdjacentShips, allowMultipleOfSame, longestShip, boardWidth, boardHeight, shipDefinitions) ==
    [class |-> "GameOptionsMessage", type |-> THeader,
     enabledAdjacentShips |-> enabledAdjacentShips,
     allowMultipleOfSame |-> allowMultipleOfSame,
     longestShip |-> longestShip,
     boardWidth |-> boardWidth, boardHeight |-> boardHeight,
     shipDefinitions |-> shipDefinitions]

ChatMessage(text, nickname) ==
    [class |-> "ChatMessage", type |-> TChat, text |-> text, nickname |-> nickname]

BeginMessage == [class |-> "BeginMessage", type |-> TBegin]

\* fieldstate is 1 or 99; death is optional: <<>>, <<TRUE>> or <<FALSE>>;
\* sinkCoordinates is <<>> when undefined, else <<<<xstart, ystart>>, <<xstop, ystop>>>>
NotificationFieldState(fieldstate, death) ==
    IF fieldstate = 99 THEN "Miss"
    ELSE IF TruthyBool(death) THEN "Sink" ELSE "Hit"

NotificationMessage(x, y, fieldstate, death, sinkCoordinates) ==
    [class |-> "NotificationMessage", type |-> TNotification,
     x |-> x, y |-> y,
     fieldState |-> NotificationFieldState(fieldstate, death),
     sinkCoordinates |-> sinkCoordinates]

MoveMessage(x, y) == [class |-> "MoveMessage", type |-> TMove, x |-> x, y |-> y]

\* respond with the two fieldstate codes exchanged
respond_CodesExchanged(move, message, shipCoordinates) ==
    IF message # "sink"
    THEN NotificationMessage(move.x, move.y, IF message = "miss" THEN 1 ELSE 99, <<FALSE>>, <<>>)
    ELSE NotificationMessage(move.x, move.y, 1, <<TRUE>>, shipCoordinates)

\* MoveMessage.respond
respond(move, message, shipCoordinates) ==
    IF message # "sink"
    THEN NotificationMessage(move.x, move.y, IF message = "miss" THEN 99 ELSE 1, <<FALSE>>, <<>>)
    ELSE NotificationMessage(move.x, move.y, 1, <<TRUE>>, shipCoordinates)

GameOverMessage == [class |-> "GameOverMessage", type |-> TGameOver]

RestartMessage == [class |-> "RestartMessage", type |-> TRestart]

RejectMessage(versionMismatch, reason) ==
    [class |-> "RejectMessage", type |-> TReject,
     versionMismatch |-> versionMismatch, reason |-> reason]

\* what a throw of Message.fromXML leaves in place of a message
DecodeError == [class |-> "Error"]

----------------------------------------------------------------------------
(* The wire.  A document is the object the XML parser yields for the text: *)
(* kmessage tells whether the root node is there, msgtype is the '#text'   *)
(* of the msgtype node.  An optional node is <<>> when absent, <<v>> when  *)
(* present.  An attribute value is a string: Str(n) is the decimal text of *)
(* n and parseInt reads it back.                                           *)

Str(n) == [str |-> n]

parseInt(s) == s.str

NoRoot == [kmessage |-> FALSE]

Doc(code, name) == [kmessage |-> TRUE, msgtype |-> code, typeName |-> name]

\* r @@ fields, for records
Ext(r, f) == [k \in DOMAIN r \cup DOMAIN f |-> IF k \in DOMAIN f THEN f[k] ELSE r[k]]

ShipToXML(definition) ==
    [name |-> definition.name, number |-> Str(definition.number),
     pluralName |-> definition.plural, size |-> Str(definition.size)]

ShipFromXML(x) ==
    [name |-> x.name, plural |-> x.pluralName,
     number |-> parseInt(x.number), size |-> parseInt(x.size)]

\* <Class>.toXML, by class
toXML(m) ==
    CASE m.class = "HeaderMessage" ->
           Ext(Doc(0, "Header"),
               [protocolVersion |-> m.protocolVersion, clientName |-> m.clientName,
                clientVersion |-> m.clientVersion,
                clientDescription |-> m.clientDescription])
      [] m.class = "NickMessage" ->
           Ext(Doc(2, "Nick"), [nickname |-> m.nickname])
      [] m.class = "GameOptionsMessage" ->
           Ext(Doc(9, "GameOptions"),
               [enabledAdjacentShips |-> m.enabledAdjacentShips,
                oneOrSeveralShips |-> [longestShip |-> Str(m.longestShip),
                                       text |-> m.allowMultipleOfSame],
                boardWidth |-> m.boardWidth, boardHeight |-> m.boardHeight,
                ships |-> [i \in DOMAIN m.shipDefinitions |->
                              ShipToXML(m.shipDefinitions[i])]])
      [] m.class = "ChatMessage" ->
           Ext(Doc(8, "Chat"), [chat |-> m.text, nickname |-> m.nickname])
      [] m.class = "BeginMessage" -> Doc(3, "Begin")
      [] m.class = "NotificationMessage" ->
           IF m.fieldState # "Sink"
           THEN Ext(Doc(5, "Notification"),
                    [fieldx |-> m.x, fieldy |-> m.y,
                     fieldstate |-> IF m.fieldState = "Miss" THEN 99 ELSE 1,
                     death |-> <<>>, xstart |-> <<>>, xstop |-> <<>>,
                     ystart |-> <<>>, ystop |-> <<>>])
           ELSE Ext(Doc(5, "Notification"),
                    [fieldx |-> m.x, fieldy |-> m.y, fieldstate |-> 1,
                     death |-> <<TRUE>>,
                     xstart |-> <<m.sinkCoordinates[1][1]>>,
                     xstop  |-> <<m.sinkCoordinates[2][1]>>,
                     ystart |-> <<m.sinkCoordinates[1][2]>>,
                     ystop  |-> <<m.sinkCoordinates[2][2]>>])
      [] m.class = "MoveMessage" ->
           Ext(Doc(4, "Move"), [fieldx |-> m.x, fieldy |-> m.y])
      [] m.class = "GameOverMessage" -> Doc(6, "GameOver")
      [] m.class = "RestartMessage" -> Doc(7, "Restart")
      [] m.class = "RejectMessage" ->
           Ext(Doc(1, "Reject"),
               [versionMismatch |-> m.versionMismatch, reason |-> m.reason])

\* Message.fromXML
fromXML(w) ==
    IF ~w.kmessage THEN DecodeError
    ELSE CASE w.msgtype = THeader ->
                HeaderMessage(w.protocolVersion, w.clientName, w.clientVersion,
                              w.clientDescription)
           [] w.msgtype = TGameOptions ->
                GameOptionsMessage(w.enabledAdjacentShips, w.oneOrSeveralShips.text,
                                   parseInt(w.oneOrSeveralShips.longestShip),
                                   w.boardWidth, w.boardHeight,
                                   [i \in DOMAIN w.ships |-> ShipFromXML(w.ships[i])])
           [] w.msgtype = TNick -> NickMessage(w.nickname)
           [] w.msgtype = TChat -> ChatMessage(w.chat, w.nickname)
           [] w.msgtype = TBegin -> BeginMessage
           [] w.msgtype = TMove -> MoveMessage(w.fieldx, w.fieldy)
           [] w.msgtype = TNotification ->
                NotificationMessage(
                    w.fieldx, w.fieldy, w.fieldstate, w.death,
                    IF TruthyNum(w.xstart) /\ TruthyNum(w.xstop)
                       /\ TruthyNum(w.ystart) /\ TruthyNum(w.ystop)
                    THEN <<<<w.xstart[1], w.ystart[1]>>, <<w.xstop[1], w.ystop[1]>>>>
                    ELSE <<>>)
           [] w.msgtype = TGameOver -> GameOverMessage
           [] w.msgtype = TRestart -> RestartMessage
           [] w.msgtype = TReject -> RejectMessage(w.versionMismatch, w.reason)
           [] OTHER -> DecodeError

----------------------------------------------------------------------------
(* NavalClient *)

\* the gameOptions the constructor sets
DefaultOptions ==
    [adjacentShips |-> TRUE, allowMultipleOfSame |-> FALSE, longestShip |-> 4,
     boardHeight |-> 10, boardWidth |-> 10,
     shipDefinitions |->
        <<[name |-> "minesweeper", plural |-> "minesweepers", number |-> 1, size |-> 1],
          [name |-> "frigate", plural |-> "frigates", number |-> 1, size |-> 2],
          [name |-> "cruise", plural |-> "cruises", number |-> 1, size |-> 3],
          [name |-> "carrier", plural |-> "carriers", number |-> 1, size |-> 4]>>]

\* the Header the client answers a Header with
MyHeader == HeaderMessage("0.1.0", "KBattleship", 4, "The Naval Battle game")

\* emit(name, ...args)
Event(name, args) == [name |-> name, args |-> args]

Player(me, nickname) == [me |-> me, nickname |-> nickname]

\* this.#socket?.write(...): nothing is written while #socket is undefined
Write(docs) == IF socket = "none" THEN <<>> ELSE docs

\* the phase test, letting the opponent's turn through as well
cannotFire_OtherTurnToo(gs) == gs # FIRE_SHIPS_SELF /\ gs # FIRE_SHIPS_OTHER

\* sendFireAt: the phase test
cannotFire(gs) == gs # FIRE_SHIPS_SELF

\* the lookup done with includes(position), which compares arrays by identity
alreadyFired_ByIdentity(fired, position) == FALSE

\* sendFireAt: this.firedAt.find(([x, y]) => x == position[0] && y == position[1])
alreadyFired(fired, position) ==
    \E i \in DOMAIN fired : fired[i][1] = position[1] /\ fired[i][2] = position[2]

\* the test with the x comparison left out
isMatch_YOnly(message, position) ==
    /\ message.class = "NotificationMessage"
    /\ message.y = position[2]

\* waitForNotification: the test that a message answers the shot at position
isMatch(message, position) ==
    /\ message.class = "NotificationMessage"
    /\ message.x = position[1]
    /\ message.y = position[2]

\* the phase test left out
cannotRespond_Never(gs) == FALSE

\* sendMoveResponse: the phase test
cannotRespond(gs) == gs # AWAIT_RESPONSE_SELF

\* sendGameOver: the phase test
cannotGameOver(gs) == gs = FIRE_SHIPS_SELF

\* connect: the phase test
cannotConnect(gs) == gs # DISCONNECTED

\* disconnect: the phase test
cannotDisconnect(gs) == gs = DISCONNECTED

\* a restart seen only after a finished game
detectedRestart_AfterGameOver(gs) == gs = GAME_OVER

\* #handleMessage (BeginMessage): detectedRestart
detectedRestart(gs) == gs # SHIP_SETUP

\* #handleMessage, one branch per class.  The result is the fields after the
\* branch (gs, fired, opp, opts), what it wrote (out) and what it emitted (ev);
\* fired is firedAt as the 'raw' listeners left it.
Keep(fired) ==
    [gs |-> gameState, fired |-> fired, opp |-> opponent, opts |-> gameOptions,
     out |-> <<>>, ev |-> <<>>]

onHeader(message, fired) ==
    [Keep(fired) EXCEPT !.out = Write(<<toXML(MyHeader)>>)]

onGameOptions(message, fired) ==
    [Keep(fired) EXCEPT
        !.opts = [adjacentShips |-> message.enabledAdjacentShips,
                  allowMultipleOfSame |-> message.allowMultipleOfSame,
                  longestShip |-> message.longestShip,
                  boardHeight |-> message.boardHeight,
                  boardWidth |-> message.boardWidth,
                  shipDefinitions |-> message.shipDefinitions],
        !.out = Write(<<toXML(message)>>)]

onNick(message, fired) ==
    [Keep(fired) EXCEPT
        !.gs = SHIP_SETUP,
        !.out = Write(<<toXML(NickMessage(MyNick))>>),
        !.opp = <<Player(FALSE, message.nickname)>>,
        !.ev = <<Event("connect", <<Player(FALSE, message.nickname)>>)>>]

\* the branch answering a Chat with the same Chat
onChat_Replies(message, fired) ==
    [Keep(fired) EXCEPT
        !.out = Write(<<toXML(message)>>),
        !.ev = <<Event("chat", <<message>>)>>]

onChat(message, fired) ==
    [Keep(fired) EXCEPT !.ev = <<Event("chat", <<message>>)>>]

onBegin(message, fired) ==
    [Keep(fired) EXCEPT
        !.out = Write(<<toXML(message)>>),
        !.fired = <<>>,
        !.gs = FIRE_SHIPS_OTHER,
        !.ev = <<Event("begin", <<detectedRestart(gameState)>>)>>]

\* the branch with the phase assignment left out
onMove_KeepsPhase(message, fired) ==
    [Keep(fired) EXCEPT
        !.ev = <<Event("move", <<MoveMessage(message.x, message.y)>>)>>]

onMove(message, fired) ==
    [Keep(fired) EXCEPT
        !.gs = AWAIT_RESPONSE_SELF,
        !.ev = <<Event("move", <<MoveMessage(message.x, message.y)>>)>>]

\* the branch naming the opponent as the winner, as sendGameOver does
onGameOver_OpponentWins(message, fired) ==
    [Keep(fired) EXCEPT
        !.gs = GAME_OVER,
        !.ev = <<Event("gameOver", opponent)>>]

onGameOver(message, fired) ==
    [Keep(fired) EXCEPT
        !.gs = GAME_OVER,
        !.ev = <<Event("gameOver", <<Player(TRUE, MyNick)>>)>>]

handleMessage(message, fired) ==
    CASE message.class = "HeaderMessage" -> onHeader(message, fired)
      [] message.class = "GameOptionsMessage" -> onGameOptions(message, fired)
      [] message.class = "NickMessage" -> onNick(message, fired)
      [] message.class = "ChatMessage" -> onChat(message, fired)
      [] message.class = "BeginMessage" -> onBegin(message, fired)
      [] message.class = "MoveMessage" -> onMove(message, fired)
      [] message.class = "GameOverMessage" -> onGameOver(message, fired)
      [] OTHER -> Keep(fired)

----------------------------------------------------------------------------
(* What the peer can send *)

OtherOptions ==
    GameOptionsMessage(FALSE, TRUE, 3, 8, 8,
        <<[name |-> "frigate", plural |-> "frigates", number |-> 2, size |-> 2],
          [name |-> "cruise", plural |-> "cruises", number |-> 1, size |-> 3]>>)

FieldStates == {1, 99}

NotificationDoc(c, fieldstate) ==
    Ext(Doc(5, "Notification"),
        [fieldx |-> c[1], fieldy |-> c[2], fieldstate |-> fieldstate,
         death |-> <<>>, xstart |-> <<>>, xstop |-> <<>>,
         ystart |-> <<>>, ystop |-> <<>>])

Inbound ==
    {toXML(HeaderMessage("0.1.0", "KBattleship", 4, "peer")),
     toXML(RejectMessage(TRUE, "version")),
     toXML(BeginMessage), toXML(GameOverMessage), toXML(RestartMessage),
     toXML(ChatMessage("hi", "B")), toXML(OtherOptions),
     NoRoot, Doc(10, "Unknown")}
    \cup {toXML(NickMessage(n)) : n \in Nicknames}
    \cup {toXML(MoveMessage(c[1], c[2])) : c \in Shots}
    \cup {NotificationDoc(c, f) : c \in Coords, f \in FieldStates}

\* the notifications the application hands to sendMoveResponse
Responses ==
    {respond(MoveMessage(2, 2), "miss", <<>>),
     respond(MoveMessage(0, 1), "hit", <<>>),
     respond(MoveMessage(0, 1), "sink", <<<<0, 1>>, <<0, 2>>>>)}

----------------------------------------------------------------------------
(* The example game: the calls and the received documents, in order *)

ExampleGame ==
    <<[op |-> "connect", arg |-> <<>>],
      [op |-> "receive", arg |-> toXML(HeaderMessage("0.1.0", "KBattleship", 4, "peer"))],
      [op |-> "receive", arg |-> toXML(NickMessage("B"))],
      [op |-> "receive", arg |-> toXML(BeginMessage)],
      [op |-> "receive", arg |-> toXML(MoveMessage(2, 2))],
      [op |-> "sendMoveResponse", arg |-> respond(MoveMessage(2, 2), "miss", <<>>)],
      [op |-> "sendFireAt", arg |-> <<5, 5>>],
      [op |-> "receive", arg |-> NotificationDoc(<<5, 5>>, 99)]>>

\* the run has left the example game
Astray == Len(ExampleGame) + 1

\* the step op(arg) is the next one of the example game
Follows(op, arg) ==
    /\ scenario < Len(ExampleGame)
    /\ ExampleGame[scenario + 1].op = op
    /\ ExampleGame[scenario + 1].arg = arg

\* keeps `scenario` up to date with the step op(arg)
Observe(op, arg) ==
    /\ scenario' = IF Follows(op, arg) THEN scenario + 1 ELSE Astray
    /\ UNCHANGED codec

----------------------------------------------------------------------------
(* The state after `new NavalClient()` *)

\* no message is in the codec
Idle == [stage |-> "idle"]

Init ==
    /\ gameState = DISCONNECTED
    /\ firedAt = <<>>
    /\ opponent = <<>>
    /\ gameOptions = DefaultOptions
    /\ socket = "none"
    /\ listeners = <<>>
    /\ movesSent = {}
    /\ written = <<>>
    /\ emitted = <<>>
    /\ resolved = <<>>
    /\ last = [op |-> "new", arg |-> <<>>, result |-> "ok"]
    /\ running = TRUE
    /\ scenario = 0
    /\ codec = Idle

\* a method that throws before it touches anything
Throws(op, arg) ==
    /\ last' = [op |-> op, arg |-> arg, result |-> "throw"]
    /\ written' = <<>>
    /\ emitted' = <<>>
    /\ resolved' = <<>>
    /\ UNCHANGED <<gameState, firedAt, opponent, gameOptions, socket,
                   listeners, movesSent, running>>

\* connect(port, host)
Connect ==
    /\ running
    /\ IF cannotConnect(gameState)
       THEN Throws("connect", <<>>)
       ELSE /\ socket' = "open"
            /\ last' = [op |-> "connect", arg |-> <<>>, result |-> "ok"]
            /\ written' = <<>>
            /\ emitted' = <<>>
            /\ resolved' = <<>>
            /\ UNCHANGED <<gameState, firedAt, opponent, gameOptions, listeners, movesSent, running>>

\* disconnect(): end() the socket and wait for its 'close'
Disconnect ==
    /\ running
    /\ IF cannotDisconnect(gameState)
       THEN Throws("disconnect", <<>>)
       ELSE /\ socket' = IF socket = "open" THEN "ended" ELSE socket
            /\ last' = [op |-> "disconnect", arg |-> <<>>, result |-> "ok"]
            /\ written' = <<>>
            /\ emitted' = <<>>
            /\ resolved' = <<>>
            /\ UNCHANGED <<gameState, firedAt, opponent, gameOptions, listeners,
                           movesSent, running>>

\* the socket's 'close': only disconnect() registers a listener for it
SocketClose ==
    /\ running
    /\ socket \in {"open", "ended"}
    /\ socket' = "closed"
    /\ gameState' = IF socket = "ended" THEN DISCONNECTED ELSE gameState
    /\ last' = [op |-> "close", arg |-> <<>>, result |-> "ok"]
    /\ written' = <<>>
    /\ emitted' = <<>>
    /\ resolved' = <<>>
    /\ UNCHANGED <<firedAt, opponent, gameOptions, listeners, movesSent, running>>

\* the socket's 'data' handler: emit('raw', str), then #handleMessage(str).
\* connect() attaches it to every socket it opens and nothing detaches it.  It
\* runs for data on #socket until that socket closes, and for data on the socket
\* of an earlier connect() for as long as that one is open: connect() can be
\* called again before the first Nick, and the earlier socket is left open.  So
\* once a socket was opened, data can arrive in any state.
\* Message.fromXML is called with no try around it, in the 'raw' listeners and
\* in #handleMessage, so its throw leaves the 'data' handler uncaught: Node.js
\* ends the process, unless the application has installed an
\* 'uncaughtException' handler, in which case the client goes on.
Receive(w) ==
    /\ running
    /\ socket # "none"
    /\ LET message == fromXML(w)
           Hit(p) == isMatch(message, p)
           Miss(p) == ~isMatch(message, p)
       IN IF message = DecodeError
          THEN /\ last' = [op |-> "receive", arg |-> <<>>, result |-> "throw"]
               /\ running' \in BOOLEAN
               /\ written' = <<>>
               /\ emitted' = <<>>
               /\ resolved' = <<>>
               /\ UNCHANGED <<gameState, firedAt, opponent, gameOptions, socket,
                              listeners, movesSent>>
          ELSE LET answered == SelectSeq(listeners, Hit)
                   after == handleMessage(message, firedAt \o answered)
               IN /\ listeners' = SelectSeq(listeners, Miss)
                  /\ resolved' = [i \in DOMAIN answered |-> <<answered[i], message>>]
                  /\ gameState' = after.gs
                  /\ firedAt' = after.fired
                  /\ opponent' = after.opp
                  /\ gameOptions' = after.opts
                  /\ written' = after.out
                  /\ emitted' = after.ev
                  /\ movesSent' = IF message.class = "BeginMessage" THEN {} ELSE movesSent
                  /\ last' = [op |-> "receive", arg |-> <<>>, result |-> "ok"]
                  /\ UNCHANGED <<socket, running>>

\* sendFireAt(position)
SendFireAt(position) ==
    /\ running
    /\ IF cannotFire(gameState) \/ alreadyFired(firedAt, position)
       THEN Throws("sendFireAt", position)
       ELSE /\ Len(listeners) < MaxPending
            /\ Len(firedAt) + Len(listeners) < MaxFired
            /\ listeners' = Append(listeners, position)
            /\ written' = Write(<<toXML(MoveMessage(position[1], position[2]))>>)
            /\ movesSent' = movesSent \cup {position}
            /\ emitted' = <<>>
            /\ resolved' = <<>>
            /\ last' = [op |-> "sendFireAt", arg |-> position, result |-> "pending"]
            /\ UNCHANGED <<gameState, firedAt, opponent, gameOptions, socket, running>>

\* sendMoveResponse(notification)
SendMoveResponse(notification) ==
    /\ running
    /\ IF cannotRespond(gameState)
       THEN Throws("sendMoveResponse", notification)
       ELSE /\ written' = Write(<<toXML(notification)>>)
            /\ gameState' = FIRE_SHIPS_SELF
            /\ emitted' = <<Event("canFire", <<>>)>>
            /\ resolved' = <<>>
            /\ last' = [op |-> "sendMoveResponse", arg |-> notification, result |-> "ok"]
            /\ UNCHANGED <<firedAt, opponent, gameOptions, socket, listeners,
                           movesSent, running>>

\* sendGameOver()
SendGameOver ==
    /\ running
    /\ IF cannotGameOver(gameState)
       THEN Throws("sendGameOver", <<>>)
       ELSE /\ emitted' = <<Event("gameOver", opponent)>>
            /\ written' = Write(<<toXML(GameOverMessage)>>)
            /\ resolved' = <<>>
            /\ last' = [op |-> "sendGameOver", arg |-> <<>>, result |-> "ok"]
            /\ UNCHANGED <<gameState, firedAt, opponent, gameOptions, socket,
                           listeners, movesSent, running>>

\* sendChatMessage(text)
SendChatMessage(text) ==
    /\ running
    /\ written' = Write(<<toXML(ChatMessage(text, MyNick))>>)
    /\ emitted' = <<>>
    /\ resolved' = <<>>
    /\ last' = [op |-> "sendChatMessage", arg |-> text, result |-> "ok"]
    /\ UNCHANGED <<gameState, firedAt, opponent, gameOptions, socket,
                   listeners, movesSent, running>>

\* requestRestart()
RequestRestart ==
    /\ running
    /\ written' = Write(<<toXML(RestartMessage)>>)
    /\ emitted' = <<>>
    /\ resolved' = <<>>
    /\ last' = [op |-> "requestRestart", arg |-> <<>>, result |-> "ok"]
    /\ UNCHANGED <<gameState, firedAt, opponent, gameOptions, socket,
                   listeners, movesSent, running>>

Next ==
    \/ Connect /\ Observe("connect", <<>>)
    \/ Disconnect /\ Observe("disconnect", <<>>)
    \/ SocketClose /\ Observe("close", <<>>)
    \/ \E w \in Inbound : Receive(w) /\ Observe("receive", w)
    \/ \E position \in Coords : SendFireAt(position) /\ Observe("sendFireAt", position)
    \/ \E notification \in Responses :
          SendMoveResponse(notification) /\ Observe("sendMoveResponse", notification)
    \/ SendGameOver /\ Observe("sendGameOver", <<>>)
    \/ SendChatMessage("hello") /\ Observe("sendChatMessage", "hello")
    \/ RequestRestart /\ Observe("requestRestart", <<>>)

Spec == Init /\ [][Next]_vars

----------------------------------------------------------------------------
(* The message classes on their own: a message is constructed, MoveMessage  *)
(* may answer it with respond, toXML encodes it and Message.fromXML decodes *)
(* what was encoded.  No client takes part.                                 *)

CodecCoords == 0 .. MaxCoord

Corners ==
    {<<<<a, b>>, <<c, d>>>> : a \in CodecCoords, b \in CodecCoords,
                              c \in CodecCoords, d \in CodecCoords}

ShipLists ==
    {<<[name |-> "frigate", plural |-> "frigates", number |-> 2, size |-> 2]>>,
     DefaultOptions.shipDefinitions}

\* the messages an application or fromXML can construct, over the bounded fields
Messages ==
    {HeaderMessage("0.1.0", "KBattleship", 4, "peer"),
     ChatMessage("hi", "B"), BeginMessage, GameOverMessage, RestartMessage}
    \cup {NickMessage(n) : n \in Nicknames}
    \cup {RejectMessage(v, "version") : v \in BOOLEAN}
    \cup {GameOptionsMessage(a, s, 3, 8, 8, d) : a \in BOOLEAN, s \in BOOLEAN, d \in ShipLists}
    \cup {MoveMessage(x, y) : x \in CodecCoords, y \in CodecCoords}
    \cup {NotificationMessage(x, y, f, <<>>, <<>>) :
             x \in CodecCoords, y \in CodecCoords, f \in FieldStates}
    \cup {NotificationMessage(x, y, 1, <<TRUE>>, sc) :
             x \in CodecCoords, y \in CodecCoords, sc \in Corners}

\* the variables of the client
session == <<gameState, firedAt, opponent, gameOptions, socket, listeners,
             movesSent, written, emitted, resolved, last, running, scenario>>

\* codec holds message m; answered is <<>> or <<the respond call that made m>>
Constructed(m, answered) ==
    [stage |-> "message", m |-> m, answered |-> answered, xml |-> <<>>, back |-> <<>>]

InitCodec ==
    /\ gameState = DISCONNECTED
    /\ firedAt = <<>>
    /\ opponent = <<>>
    /\ gameOptions = DefaultOptions
    /\ socket = "none"
    /\ listeners = <<>>
    /\ movesSent = {}
    /\ written = <<>>
    /\ emitted = <<>>
    /\ resolved = <<>>
    /\ last = [op |-> "new", arg |-> <<>>, result |-> "ok"]
    /\ running = TRUE
    /\ scenario = 0
    /\ codec \in {Constructed(m, <<>>) : m \in Messages}

\* move.respond(message, shipCoordinates)
Respond(message, shipCoordinates) ==
    /\ codec.stage = "message"
    /\ codec.m.class = "MoveMessage"
    /\ codec' = Constructed(respond(codec.m, message, shipCoordinates),
                            <<[move |-> codec.m, message |-> message,
                               shipCoordinates |-> shipCoordinates]>>)
    /\ UNCHANGED session

\* m.toXML()
Encode ==
    /\ codec.stage = "message"
    /\ codec' = [codec EXCEPT !.stage = "encoded", !.xml = toXML(codec.m)]
    /\ UNCHANGED session

\* Message.fromXML(xml)
Decode ==
    /\ codec.stage = "encoded"
    /\ codec' = [codec EXCEPT !.stage = "decoded", !.back = fromXML(codec.xml)]
    /\ UNCHANGED session

NextCodec ==
    \/ \E message \in {"hit", "miss"} : Respond(message, <<>>)
    \/ \E shipCoordinates \in Corners : Respond("sink", shipCoordinates)
    \/ Encode
    \/ Decode

SpecCodec == InitCodec /\ [][NextCodec]_vars

----------------------------------------------------------------------------
(* Properties *)

Range(seq) == {seq[i] : i \in DOMAIN seq}

\* how often c occurs in seq
Count(seq, c) == Cardinality({i \in DOMAIN seq : seq[i] = c})

\* ev is exactly one event, name(args)
EmitsOnly(ev, name, args) ==
    /\ Len(ev) = 1
    /\ ev[1].name = name
    /\ ev[1].args = args

MoveDoc(c) == toXML(MoveMessage(c[1], c[2]))

Called(op) == last'.op = op

Threw == last'.result = "throw"

\* C1: in every phase other than FIRE_SHIPS_SELF a sendFireAt(x, y) call fails,
\* for every (x, y): it writes nothing, registers no listener and leaves the
\* phase and firedAt as they were.
C1_FireFailsOutsideOwnTurn ==
    [][(Called("sendFireAt") /\ gameState # FIRE_SHIPS_SELF)
         => /\ Threw
            /\ written' = <<>>
            /\ listeners' = listeners
            /\ gameState' = gameState
            /\ firedAt' = firedAt]_vars

C1_Witness ==
    /\ last.op = "sendFireAt"
    /\ last.result = "throw"
    /\ gameState = FIRE_SHIPS_OTHER
    /\ last.arg \notin Range(firedAt)

\* C2: at most one shot is pending in every reachable state.
C2_AtMostOnePending == Len(listeners) <= 1

\* C3: a sendFireAt(x, y) that succeeds writes one Move(x, y) and leaves the
\* phase AWAIT_RESPONSE_OTHER; the phase stays AWAIT_RESPONSE_OTHER while the
\* shot is pending and is FIRE_SHIPS_SELF again once the shot is resolved.
C3_FireAwaitsResponse ==
    [][/\ (Called("sendFireAt") /\ ~Threw)
            => /\ written' = <<MoveDoc(last'.arg)>>
               /\ gameState' = AWAIT_RESPONSE_OTHER
       /\ (listeners # <<>> /\ resolved' = <<>> /\ gameState = AWAIT_RESPONSE_OTHER)
            => gameState' = AWAIT_RESPONSE_OTHER
       /\ resolved' # <<>>
            => (gameState = AWAIT_RESPONSE_OTHER /\ gameState' = FIRE_SHIPS_SELF)]_vars

\* C4: a coordinate whose shot was resolved stays in firedAt until a Begin is
\* processed, and while it is in firedAt every sendFireAt at it in phase
\* FIRE_SHIPS_SELF fails, writes nothing and leaves firedAt as it was.
C4_NoDoubleFire ==
    [][/\ \A i \in DOMAIN resolved' : resolved'[i][1] \in Range(firedAt')
       /\ \A c \in Range(firedAt) :
             c \in Range(firedAt') \/ (Called("receive") /\ Receive(toXML(BeginMessage)))
       /\ (Called("sendFireAt") /\ gameState = FIRE_SHIPS_SELF
              /\ last'.arg \in Range(firedAt))
            => /\ Threw
               /\ written' = <<>>
               /\ listeners' = listeners
               /\ firedAt' = firedAt]_vars

C4_Witness ==
    /\ last.op = "sendFireAt"
    /\ last.result = "throw"
    /\ gameState = FIRE_SHIPS_SELF
    /\ last.arg \in Range(firedAt)

\* C5: between two processed Begin messages no two Move messages with the same
\* coordinate are written.
C5_NoMoveTwice ==
    [][(Called("sendFireAt") /\ written' # <<>>) => last'.arg \notin movesSent]_vars

\* C6: a received message resolves the listeners waiting at c exactly when it is
\* a Notification for c: each of them is resolved once, with that message, is
\* removed, and adds c to firedAt; every other message, and every other
\* operation, leaves the listeners at c waiting and resolves none of them.
C6_Correlation ==
    [][/\ \A w \in Inbound : (Called("receive") /\ Receive(w)) =>
             LET m == fromXML(w) IN
             \A c \in Coords :
                LET n == Count(listeners, c)
                    mine == SelectSeq(resolved', LAMBDA r : r[1] = c)
                IN IF m.class = "NotificationMessage" /\ <<m.x, m.y>> = c
                   THEN /\ Count(listeners', c) = 0
                        /\ Len(mine) = n
                        /\ \A i \in DOMAIN mine : mine[i] = <<c, m>>
                        /\ Count(firedAt', c) = Count(firedAt, c) + n
                   ELSE /\ Count(listeners', c) = n
                        /\ mine = <<>>
                        /\ \/ Count(firedAt', c) = Count(firedAt, c)
                           \/ m.class = "BeginMessage"
       /\ ~Called("receive") =>
             /\ resolved' = <<>>
             /\ \A c \in Coords : Count(listeners', c) >= Count(listeners, c)]_vars

C6_Witness ==
    /\ last.op = "receive"
    /\ Len(resolved) = 1
    /\ resolved[1][1] \in Range(firedAt)
    /\ listeners # <<>>
    /\ resolved[1][1] \notin Range(listeners)

\* C7: a received Begin writes one Begin, empties firedAt, sets the phase to
\* FIRE_SHIPS_OTHER and emits one begin event, whose flag is FALSE exactly when
\* the phase before was SHIP_SETUP.
C7_BeginRestarts ==
    [][(Called("receive") /\ Receive(toXML(BeginMessage)))
         => /\ written' = <<toXML(BeginMessage)>>
            /\ firedAt' = <<>>
            /\ gameState' = FIRE_SHIPS_OTHER
            /\ EmitsOnly(emitted', "begin", <<gameState # SHIP_SETUP>>)]_vars

C7_Witness ==
    /\ last.op = "receive"
    /\ EmitsOnly(emitted, "begin", <<TRUE>>)
    /\ firedAt = <<>>
    /\ listeners # <<>>

\* C8: sendMoveResponse(n) succeeds only in phase AWAIT_RESPONSE_SELF, where it
\* writes n, sets the phase to FIRE_SHIPS_SELF and emits canFire once; in every
\* other phase it fails, writes nothing, emits nothing and keeps the phase.
C8_MoveResponse ==
    [][Called("sendMoveResponse")
         => IF gameState = AWAIT_RESPONSE_SELF
            THEN /\ ~Threw
                 /\ written' = <<toXML(last'.arg)>>
                 /\ gameState' = FIRE_SHIPS_SELF
                 /\ EmitsOnly(emitted', "canFire", <<>>)
            ELSE /\ Threw
                 /\ written' = <<>>
                 /\ emitted' = <<>>
                 /\ gameState' = gameState]_vars

C8_Witness ==
    /\ last.op = "sendMoveResponse"
    /\ last.result = "ok"
    /\ gameState = FIRE_SHIPS_SELF
    /\ written = <<toXML(last.arg)>>

\* C9: a Move(x, y) received in phase FIRE_SHIPS_OTHER emits one move event with
\* (x, y) and sets the phase to AWAIT_RESPONSE_SELF, and AWAIT_RESPONSE_SELF is
\* entered from no phase other than FIRE_SHIPS_OTHER.
C9_MoveOnlyInOtherTurn ==
    [][/\ \A c \in Shots :
             (Called("receive") /\ Receive(MoveDoc(c)) /\ gameState = FIRE_SHIPS_OTHER)
               => /\ EmitsOnly(emitted', "move", <<MoveMessage(c[1], c[2])>>)
                  /\ gameState' = AWAIT_RESPONSE_SELF
       /\ (gameState # AWAIT_RESPONSE_SELF /\ gameState' = AWAIT_RESPONSE_SELF)
            => gameState = FIRE_SHIPS_OTHER]_vars

\* C10: a Nick received in phase DISCONNECTED records the opponent, writes the
\* client's own Nick, emits one connect event and sets the phase to SHIP_SETUP,
\* and SHIP_SETUP is entered from no phase other than DISCONNECTED.
C10_NickOnlyWhenDisconnected ==
    [][/\ \A n \in Nicknames :
             (Called("receive") /\ Receive(toXML(NickMessage(n)))
                /\ gameState = DISCONNECTED)
               => /\ opponent' = <<Player(FALSE, n)>>
                  /\ written' = <<toXML(NickMessage(MyNick))>>
                  /\ EmitsOnly(emitted', "connect", <<Player(FALSE, n)>>)
                  /\ gameState' = SHIP_SETUP
       /\ (gameState # SHIP_SETUP /\ gameState' = SHIP_SETUP)
            => gameState = DISCONNECTED]_vars

\* C11: a received GameOver, in whatever phase, sets the phase to GAME_OVER,
\* emits exactly one gameOver event whose winner is the client itself
\* (me = TRUE, its own nickname) and writes nothing.
C11_GameOverReceived ==
    [][(Called("receive") /\ Receive(toXML(GameOverMessage)))
         => /\ gameState' = GAME_OVER
            /\ EmitsOnly(emitted', "gameOver", <<Player(TRUE, MyNick)>>)
            /\ written' = <<>>]_vars

C11_Witness ==
    /\ last.op = "receive"
    /\ gameState = GAME_OVER
    /\ EmitsOnly(emitted, "gameOver", <<Player(TRUE, MyNick)>>)
    /\ opponent # <<>>
    /\ written = <<>>

\* C12: every sendGameOver that does not fail emits one gameOver event whose
\* winner is the opponent, writes one GameOver and leaves the phase GAME_OVER.
C12_SendGameOverEnds ==
    [][(Called("sendGameOver") /\ ~Threw)
         => /\ EmitsOnly(emitted', "gameOver", opponent)
            /\ written' = <<toXML(GameOverMessage)>>
            /\ gameState' = GAME_OVER]_vars

\* C13: whenever the socket closes, in whatever phase and whichever side closed
\* it, the phase becomes DISCONNECTED.
C13_CloseDisconnects ==
    [][Called("close") => gameState' = DISCONNECTED]_vars

\* C14: when the socket closes while shots are pending, no shot is pending
\* afterwards and the opponent is unset.
C14_CloseRejectsPending ==
    [][(Called("close") /\ listeners # <<>>)
         => /\ listeners' = <<>>
            /\ opponent' = <<>>]_vars

\* C15: a received Header, GameOptions or Chat, in whatever phase, leaves the
\* phase, firedAt and the opponent as they were.  The Header only writes the
\* client's own Header; the GameOptions only replaces gameOptions with the
\* received values and writes the same message back; the Chat only emits one
\* chat event and writes nothing.
C15_HandshakeAndChat ==
    [][/\ (Called("receive") /\ Receive(toXML(HeaderMessage("0.1.0", "KBattleship", 4, "peer"))))
            => /\ UNCHANGED <<gameState, firedAt, opponent, gameOptions>>
               /\ written' = <<toXML(MyHeader)>>
               /\ emitted' = <<>>
       /\ (Called("receive") /\ Receive(toXML(OtherOptions)))
            => /\ UNCHANGED <<gameState, firedAt, opponent>>
               /\ gameOptions' =
                     [adjacentShips |-> OtherOptions.enabledAdjacentShips,
                      allowMultipleOfSame |-> OtherOptions.allowMultipleOfSame,
                      longestShip |-> OtherOptions.longestShip,
                      boardHeight |-> OtherOptions.boardHeight,
                      boardWidth |-> OtherOptions.boardWidth,
                      shipDefinitions |-> OtherOptions.shipDefinitions]
               /\ written' = <<toXML(OtherOptions)>>
               /\ emitted' = <<>>
       /\ (Called("receive") /\ Receive(toXML(ChatMessage("hi", "B"))))
            => /\ UNCHANGED <<gameState, firedAt, opponent, gameOptions>>
               /\ written' = <<>>
               /\ EmitsOnly(emitted', "chat", <<ChatMessage("hi", "B")>>)]_vars

C15_Witness ==
    /\ last.op = "receive"
    /\ written = <<toXML(OtherOptions)>>
    /\ gameOptions.boardWidth = OtherOptions.boardWidth
    /\ gameState = FIRE_SHIPS_SELF
    /\ firedAt # <<>>
    /\ opponent # <<>>

\* C16: decoding what toXML encoded gives back the message: the same class
\* with equal fields, for every message of the ten classes over the bounded
\* fields.
C16_RoundTrip ==
    codec.stage = "decoded" => codec.back = codec.m

\* C17: a document without the root node, or with a type code outside 0..9,
\* fails to decode; receiving it leaves the phase, firedAt, the opponent and
\* gameOptions as they were, writes nothing, and the client goes on receiving.
C17_BadInputSurvived ==
    [][\A w \in {NoRoot, Doc(10, "Unknown")} :
          (Called("receive") /\ Receive(w))
            => /\ fromXML(w) = DecodeError
               /\ Threw
               /\ UNCHANGED <<gameState, firedAt, opponent, gameOptions>>
               /\ written' = <<>>
               /\ running']_vars

\* C18: for every Move(x, y), respond("sink", [[a, b], [c, d]]) is a
\* Notification at (x, y) in field state Sink, encoded with fieldstate 1, the
\* death flag, xstart = a, ystart = b, xstop = c, ystop = d; respond("hit") is
\* one in state Hit encoded with fieldstate 1 and respond("miss") one in state
\* Miss encoded with fieldstate 99, both at (x, y), with no death flag and no
\* corner node.
C18_Respond ==
    (codec.stage = "encoded" /\ codec.answered # <<>>) =>
        LET call == codec.answered[1]
            sc == call.shipCoordinates
        IN /\ codec.m.class = "NotificationMessage"
           /\ codec.m.x = call.move.x /\ codec.m.y = call.move.y
           /\ codec.xml.msgtype = TNotification
           /\ codec.xml.fieldx = call.move.x /\ codec.xml.fieldy = call.move.y
           /\ IF call.message = "sink"
              THEN /\ codec.m.fieldState = "Sink"
                   /\ codec.xml.fieldstate = 1
                   /\ codec.xml.death = <<TRUE>>
                   /\ codec.xml.xstart = <<sc[1][1]>> /\ codec.xml.ystart = <<sc[1][2]>>
                   /\ codec.xml.xstop = <<sc[2][1]>> /\ codec.xml.ystop = <<sc[2][2]>>
              ELSE /\ codec.m.fieldState = (IF call.message = "hit" THEN "Hit" ELSE "Miss")
                   /\ codec.xml.fieldstate = (IF call.message = "hit" THEN 1 ELSE 99)
                   /\ codec.xml.death = <<>>
                   /\ codec.xml.xstart = <<>> /\ codec.xml.ystart = <<>>
                   /\ codec.xml.xstop = <<>> /\ codec.xml.ystop = <<>>

C18_Witness ==
    /\ codec.stage = "encoded"
    /\ codec.answered # <<>>
    /\ codec.answered[1].message = "sink"
    /\ codec.answered[1].shipCoordinates = <<<<0, 1>>, <<1, 0>>>>
    /\ codec.xml.xstart = <<0>> /\ codec.xml.ystart = <<1>>

\* C19: the example game.  From DISCONNECTED, receiving Header, Nick("B"),
\* Begin and Move(2, 2), calling sendMoveResponse(miss) and sendFireAt(5, 5)
\* and receiving Notification(5, 5, miss) takes the phase through SHIP_SETUP,
\* FIRE_SHIPS_OTHER, AWAIT_RESPONSE_SELF and FIRE_SHIPS_SELF, emits connect(B),
\* begin(false), move and canFire in that order, leaves the fire call pending
\* until the Notification, and ends with the call resolved to Miss, the phase
\* FIRE_SHIPS_SELF and firedAt = {(5, 5)}.
C19_ExampleGame ==
    /\ scenario \in {1, 2} => (gameState = DISCONNECTED /\ emitted = <<>>)
    /\ scenario = 3 =>
          /\ gameState = SHIP_SETUP
          /\ EmitsOnly(emitted, "connect", <<Player(FALSE, "B")>>)
    /\ scenario = 4 =>
          /\ gameState = FIRE_SHIPS_OTHER
          /\ EmitsOnly(emitted, "begin", <<FALSE>>)
    /\ scenario = 5 =>
          /\ gameState = AWAIT_RESPONSE_SELF
          /\ EmitsOnly(emitted, "move", <<MoveMessage(2, 2)>>)
    /\ scenario = 6 =>
          /\ gameState = FIRE_SHIPS_SELF
          /\ EmitsOnly(emitted, "canFire", <<>>)
    /\ scenario = 7 =>
          /\ last.result = "pending"
          /\ listeners = <<<<5, 5>>>>
          /\ resolved = <<>> /\ emitted = <<>>
          /\ firedAt = <<>>
    /\ scenario = 8 =>
          /\ Len(resolved) = 1
          /\ resolved[1][1] = <<5, 5>>
          /\ resolved[1][2].class = "NotificationMessage"
          /\ resolved[1][2].fieldState = "Miss"
          /\ listeners = <<>> /\ emitted = <<>>
          /\ gameState = FIRE_SHIPS_SELF
          /\ firedAt = <<<<5, 5>>>>

C19_Witness ==
    /\ scenario = Len(ExampleGame)
    /\ last.op = "receive"
    /\ resolved # <<>>

\* C20: a sendGameOver called right after a sendMoveResponse that succeeded
\* does not fail.
C20_GameOverAfterResponse ==
    [][(Called("sendGameOver") /\ last.op = "sendMoveResponse" /\ last.result = "ok")
         => ~Threw]_vars

\* C21: once the phase is GAME_OVER it stays GAME_OVER under every received
\* message and every call, except for a received Begin, which makes it
\* FIRE_SHIPS_OTHER, and a close of the socket, which makes it DISCONNECTED.
C21_GameOverTerminal ==
    [][gameState = GAME_OVER
         => \/ gameState' = GAME_OVER
            \/ /\ Called("receive") /\ Receive(toXML(BeginMessage))
               /\ gameState' = FIRE_SHIPS_OTHER
            \/ /\ Called("close")
               /\ gameState' = DISCONNECTED]_vars

\* the code the protocol fixes for each class of message
FixedCode(class) ==
    CASE class = "HeaderMessage" -> 0
      [] class = "RejectMessage" -> 1
      [] class = "NickMessage" -> 2
      [] class = "BeginMessage" -> 3
      [] class = "MoveMessage" -> 4
      [] class = "NotificationMessage" -> 5
      [] class = "GameOverMessage" -> 6
      [] class = "RestartMessage" -> 7
      [] class = "ChatMessage" -> 8
      [] class = "GameOptionsMessage" -> 9

\* C22: for every class of message, the type tag of a message equals the code
\* its encoding writes in msgtype, and both equal the fixed code of the class;
\* decoding a document with code c gives a message of the class with code c.
C22_TypeTagIsWireCode ==
    /\ codec.stage \in {"encoded", "decoded"}
         => /\ codec.xml.msgtype = FixedCode(codec.m.class)
            /\ codec.m.type = codec.xml.msgtype
    /\ codec.stage = "decoded"
         => /\ codec.back # DecodeError
            /\ FixedCode(codec.back.class) = codec.xml.msgtype

\* C23: no coordinate occurs in firedAt more than once, in every reachable
\* state.
C23_FiredAtIsSet ==
    \A i \in DOMAIN firedAt : \A j \in DOMAIN firedAt :
        firedAt[i] = firedAt[j] => i = j

\* C24: every coordinate in firedAt was written as a Move after the Begin
\* processed last.
C24_FiredInThisGame ==
    Range(firedAt) \subseteq movesSent

\* C25: connect() fails whenever the socket an earlier connect() opened has
\* not closed yet, and disconnect() fails when no socket is open.
C25_OneConnection ==
    [][/\ (Called("connect") /\ socket \in {"open", "ended"}) => Threw
       /\ (Called("disconnect") /\ socket \in {"none", "closed"}) => Threw]_vars

====
